---- MODULE Spec2Model ----
(***************************************************************************)
(* Tech_News_Scraper_Summarizer: the scraper (news_scraper.py: Scraper,    *)
(* TechCrunchArticles, DataStorage) and the summarizer                     *)
(* (site_summarizer.py) as state machines.                                 *)
(*                                                                         *)
(* Python values are tagged records [t |-> type, v |-> text]: a str, None, *)
(* and, after pandas has read a CSV file, a float NaN, an int64 or a       *)
(* float64.  A CSV file is a sequence of rows of text cells.               *)
(***************************************************************************)
EXTENDS Integers, Sequences, FiniteSets, TLC

VARIABLES
    file,        \* the CSV file of DataStorage: [exists, cols, rows]
    before,      \* the file as it was when the last update_csv_file call began
    batch,       \* article_data of the last update_csv_file call
    raised,      \* what the last call raised ("none": it returned)
    phase,       \* update_csv_file calls made: 0, 1 (some), 2 (SpecPair: A and B)
    batchA,      \* article_data of the first update_csv_file call
    invocations, \* two update_csv_file calls that may overlap: where each is
                 \* (idle, loaded, saved), its existing_data and article_data
    pc,          \* where Scraper.scrape is: idle, listing, article, returned, raised;
                 \* exited: the process has ended after update_csv_file
    source,      \* the source argument of scrape
    attempts,    \* driver.get calls made by the running get_page call
    warnings,    \* "Connection error occurred" warnings of the running get_page call
    sessions,    \* browser sessions (webdriver.Chrome) created and not quit
    listing,     \* what get_page gave for the listing: pending, content, none, error
    anchors,     \* the post-block__title__link anchors of the listing page
    article_urls,   \* fetch_articles: the URLs extract_article_urls gave
    idx,         \* fetch_articles: index of the URL being processed
    articles_data,  \* fetch_articles: the records assembled so far
    result,      \* the list scrape returned
    exc,         \* the exception scrape raised ("none": none)
    skipped,     \* "Article url not found" warnings
    fetched,     \* get_page calls made for article pages
    last_call,   \* the last get_page call that ended: attempts, warnings, outcome
    doc,         \* the article page loaded last (<<>>: none yet)
    other,       \* the file at the second path given to site_summarizer.main
    last_op,     \* the last call on the files: none, update, main
    main_in,     \* input_csv_file of the last main call: "store" or "other"
    main_out,    \* output_csv_file of the last main call
    in_before,   \* the input file as it was when the last main call began
    main_exc,    \* what the last main call raised ("none": it returned)
    extracted    \* the last call of an extractor on its own: fn, arg, out

storeVars == <<file, before, batch, raised, phase, batchA, invocations>>

scraperVars == <<pc, source, attempts, warnings, sessions, listing, anchors,
                 article_urls, idx, articles_data, result, exc, skipped,
                 fetched, last_call, doc>>

summVars == <<other, last_op, main_in, main_out, in_before, main_exc>>

vars == <<file, before, batch, raised, phase, batchA, invocations,
          pc, source, attempts, warnings, sessions, listing, anchors,
          article_urls, idx, articles_data, result, exc, skipped, fetched,
          last_call, doc,
          other, last_op, main_in, main_out, in_before, main_exc,
          extracted>>

----------------------------------------------------------------------------
(* Bounds *)

MaxBatch == 2       \* records in one article_data list
MaxRows == 3        \* rows the CSV file may hold
MaxAnchors == 3     \* anchors of a listing page
MaxTokens == 3      \* tokens of the text of a date element
MaxParts == 3       \* "/"-separated parts of a URL given to extract_article_id

----------------------------------------------------------------------------
(* Python values *)

None == [t |-> "None", v |-> ""]
NaN == [t |-> "nan", v |-> ""]
Str(s) == [t |-> "str", v |-> s]
Int64(s) == [t |-> "int", v |-> s]
Float64(s) == [t |-> "float", v |-> s]

\* a == b for the values met here, as Series.isin compares them (pandas 1.3
\* to 2.x): its object hash table takes two float NaN as equal, and None as
\* equal to None only.
PyEq(a, b) ==
    \/ a.t = "str" /\ b.t = "str" /\ a.v = b.v
    \/ a.t = "None" /\ b.t = "None"
    \/ a.t = "nan" /\ b.t = "nan"
    \/ a.t \in {"int", "float"} /\ b.t \in {"int", "float"}
         /\ (IF a.t = "int" THEN a.v \o ".0" ELSE a.v)
              = (IF b.t = "int" THEN b.v \o ".0" ELSE b.v)

----------------------------------------------------------------------------
(* The CSV file: pandas.DataFrame.to_csv and pandas.read_csv *)

Columns == {"title", "article_id", "content", "url", "author",
            "date_published", "source"}

\* A file is [exists, cols, rows]: the header's columns and the rows, each
\* a text cell per column.  A frame (pandas.DataFrame) is [cols, rows] with
\* a Python value per column.
NoFile == [exists |-> FALSE, cols |-> {}, rows |-> <<>>]

\* The texts read_csv takes for a missing value (its default na_values).
NaTexts == {"", "#N/A", "#N/A N/A", "#NA", "-1.#IND", "-1.#QNAN", "-NaN",
            "-nan", "1.#IND", "1.#QNAN", "<NA>", "N/A", "NA", "NULL", "NaN",
            "None", "n/a", "nan", "null"}

\* The numerals of the model's texts: "7" parses as an integer, "7.0" as a
\* float, every other text of the model is no number.
IsIntText(s) == s \in {"7"}
IsFloatText(s) == s \in {"7.0"}

\* The type read_csv infers for a column from all of its cells.
ColumnDtype(cells) ==
    LET present == {i \in DOMAIN cells : cells[i] \notin NaTexts}
    IN  IF cells = <<>> THEN "object"
        ELSE IF \A i \in present : IsIntText(cells[i])
             THEN IF present = DOMAIN cells THEN "int64" ELSE "float64"
        ELSE IF \A i \in present : IsIntText(cells[i]) \/ IsFloatText(cells[i])
             THEN "float64"
        ELSE "object"

ParseCell(dtype, s) ==
    IF s \in NaTexts THEN NaN
    ELSE IF dtype = "int64" THEN Int64(s)
    ELSE IF dtype = "float64" THEN Float64(IF IsIntText(s) THEN s \o ".0" ELSE s)
    ELSE Str(s)

\* to_csv writes a missing value (None, NaN) as the empty field and every
\* other value as its str().
FormatCell(x) == IF x.t \in {"None", "nan"} THEN "" ELSE x.v

ColumnCells(rows, c) == [i \in DOMAIN rows |-> rows[i][c]]

\* pd.read_csv(path): the frame of the file's rows, each column parsed
\* under the type inferred for it.
read_csv(f) ==
    [cols |-> f.cols,
     rows |-> [i \in DOMAIN f.rows |->
        [c \in f.cols |->
            ParseCell(ColumnDtype(ColumnCells(f.rows, c)), f.rows[i][c])]]]

\* df.to_csv(path, index=False, encoding="utf-8-sig")
to_csv(df) ==
    [exists |-> TRUE,
     cols |-> df.cols,
     rows |-> [i \in DOMAIN df.rows |->
                 [c \in df.cols |-> FormatCell(df.rows[i][c])]]]

\* DataStorage.load_existing_data: the file's frame, or the empty frame of
\* the seven columns when there is no file.
load_existing_data(f) ==
    IF f.exists THEN read_csv(f) ELSE [cols |-> Columns, rows |-> <<>>]

\* DataStorage.save_to_csv
save_to_csv(df) == to_csv(df)

\* pd.DataFrame(article_data): the columns are the keys of the dicts, and a
\* frame of no dict has no column.
DataFrame(article_data) ==
    [cols |-> IF article_data = <<>> THEN {} ELSE DOMAIN article_data[1],
     rows |-> article_data]

\* pd.concat([a, b], ignore_index=True): the rows of a, then those of b,
\* over the columns of both, NaN where a row has no such column.
concat(a, b) ==
    LET cols == a.cols \cup b.cols
        Widen(r) == [c \in cols |-> IF c \in DOMAIN r THEN r[c] ELSE NaN]
    IN  [cols |-> cols,
         rows |-> [i \in DOMAIN a.rows |-> Widen(a.rows[i])]
                    \o [i \in DOMAIN b.rows |-> Widen(b.rows[i])]]

\* isin, had it taken every missing value (None, NaN) for equal to every other.
isin_MissingEqual(x, column) ==
    \E i \in DOMAIN column :
        \/ PyEq(x, column[i])
        \/ x.t \in {"None", "nan"} /\ column[i].t \in {"None", "nan"}

\* Series.isin: x is equal to some value of the column
isin(x, column) == \E i \in DOMAIN column : PyEq(x, column[i])

\* DataStorage.update_csv_file after load_existing_data has given
\* existing_data: the file it leaves (f is the file as it is) and what it
\* raises.  new_data["article_id"] raises KeyError when the frame has no
\* such column (pd.DataFrame([]) has none), before anything is written.
filter_and_save(f, existing_data, article_data) ==
    LET new_data == DataFrame(article_data)
        ids == ColumnCells(existing_data.rows, "article_id")
        kept == [cols |-> new_data.cols,
                 rows |-> SelectSeq(new_data.rows,
                              LAMBDA r : ~isin(r["article_id"], ids))]
        updated_data == concat(existing_data, kept)
    IN  IF "article_id" \notin new_data.cols
           \/ "article_id" \notin existing_data.cols
        THEN [file |-> f, raised |-> "KeyError"]
        ELSE [file |-> save_to_csv(updated_data), raised |-> "none"]

\* DataStorage.update_csv_file, when nothing else touches the file between
\* its load and its save: the file it leaves and what it raises.
update_csv_file(f, article_data) ==
    filter_and_save(f, load_existing_data(f), article_data)

----------------------------------------------------------------------------
(* Texts: a text is a sequence of tokens, each a run of characters; the    *)
(* tokens " " and "\n" are white space, "/" and the bullet never occur     *)
(* inside another token.                                                   *)

\* The token of the character U+2022, which the date text is split on.
Bullet == "<U+2022>"

RECURSIVE Concat(_)
Concat(ts) == IF ts = <<>> THEN "" ELSE Head(ts) \o Concat(Tail(ts))

\* sep.join(strings)
RECURSIVE Join(_, _)
Join(strings, sep) ==
    IF strings = <<>> THEN ""
    ELSE IF Len(strings) = 1 THEN strings[1]
    ELSE strings[1] \o sep \o Join(Tail(strings), sep)

IsSpace(tok) == tok \in {" ", "\n"}

RECURSIVE LStrip(_)
LStrip(ts) == IF ts # <<>> /\ IsSpace(Head(ts)) THEN LStrip(Tail(ts)) ELSE ts

Reverse(ts) == [i \in 1..Len(ts) |-> ts[Len(ts) + 1 - i]]

\* str.strip()
Strip(ts) == Reverse(LStrip(Reverse(LStrip(ts))))

\* text.split(sep)[-1]: split never gives an empty list, so the last part
\* always exists; it is the whole text when sep does not occur.
SplitLast(ts, sep) ==
    LET at == {i \in DOMAIN ts : ts[i] = sep}
    IN  IF at = {} THEN ts
        ELSE SubSeq(ts, (CHOOSE i \in at : \A j \in at : j <= i) + 1, Len(ts))

----------------------------------------------------------------------------
(* TechCrunchArticles: the extractors *)

\* URLs as their "/"-separated parts: "", "x", "https://tc.com/a/" and
\* "https://tc.com/7/".
UrlParts == {<<"">>, <<"x">>, <<"https:", "", "tc.com", "a", "">>,
             <<"https:", "", "tc.com", "7", "">>}

\* The URLs of at most MaxParts parts, each empty, "a", "7" or "tc.com":
\* "/" is <<"", "">>, "tc.com/a" is <<"tc.com", "a">>.
ShortUrlParts ==
    UNION {[1..n -> {"", "a", "7", "tc.com"}] : n \in 1..MaxParts}

\* url.split("/"): the inverse of "/".join, on the URLs of UrlParts and of
\* ShortUrlParts
SplitSlash(url) ==
    IF \E parts \in UrlParts : Join(parts, "/") = url
    THEN CHOOSE parts \in UrlParts : Join(parts, "/") = url
    ELSE CHOOSE parts \in ShortUrlParts : Join(parts, "/") = url

\* An element of an article page: present or not, with its text.
Absent == [present |-> FALSE, text |-> <<>>]
Element(ts) == [present |-> TRUE, text |-> ts]

\* What an extractor gives: the exception it raises ("none": none) and the
\* value it returns.
Raise(e) == [exc |-> e, value |-> None]
Return(x) == [exc |-> "none", value |-> x]

\* extract_article_title, had it returned None for a missing element.
extract_article_title_NoRaise(d) ==
    IF ~d.title.present THEN Return(None)
    ELSE Return(Str(Concat(Strip(d.title.text))))

extract_article_title(d) ==
    IF ~d.title.present THEN Raise("NoArticleTitleFound")
    ELSE Return(Str(Concat(Strip(d.title.text))))

\* tag_date.get_text(strip=True), then split on the bullet and strip the
\* last part; the IndexError handler is never entered.
extract_article_date(d) ==
    IF ~d.date.present THEN Raise("NoArticleDateFound")
    ELSE Return(Str(Concat(Strip(SplitLast(Strip(d.date.text), Bullet)))))

extract_article_author(d) ==
    IF ~d.author.present THEN Raise("NoArticleAuthorFound")
    ELSE Return(Str(Concat(Strip(d.author.text))))

\* The div.article-content element holds a list of paragraphs.
extract_article_content_text(d) ==
    IF ~d.content.present THEN Raise("NoArticleContentFound")
    ELSE Return(Str(Join([i \in DOMAIN d.content.text |->
                              Concat(d.content.text[i])], "\n")))

\* url_parts[-2]: IndexError, hence None, when the URL holds no "/".
extract_article_id(url) ==
    LET url_parts == SplitSlash(url.v)
    IN  IF Len(url_parts) >= 2 THEN Str(url_parts[Len(url_parts) - 1])
        ELSE None

\* Python's truth value of article.get("data-mrf-link")
Truthy(x) == x.t = "str" /\ x.v # ""

\* extract_article_urls, had it stopped at the first anchor without a URL.
extract_article_urls_StopAtFirstMissing(as) ==
    LET bad == {i \in DOMAIN as : ~Truthy(as[i])}
    IN  IF bad = {} THEN as
        ELSE SubSeq(as, 1, (CHOOSE i \in bad : \A j \in bad : i <= j) - 1)

\* extract_article_urls: the data-mrf-link values of the anchors, in order,
\* without the anchors that have none (a warning each).
extract_article_urls(as) == SelectSeq(as, Truthy)

\* fetch_articles, one pass of the loop after get_page gave the page: the
\* extractors in the order the code calls them; the first that raises ends
\* the pass.
fetch_article(d, article_url) ==
    LET title == extract_article_title(d)
        content == extract_article_content_text(d)
        author == extract_article_author(d)
        date == extract_article_date(d)
    IN  IF title.exc # "none" THEN Raise(title.exc)
        ELSE IF content.exc # "none" THEN Raise(content.exc)
        ELSE IF author.exc # "none" THEN Raise(author.exc)
        ELSE IF date.exc # "none" THEN Raise(date.exc)
        ELSE Return([c \in Columns |->
                CASE c = "title" -> title.value
                  [] c = "article_id" -> extract_article_id(article_url)
                  [] c = "content" -> content.value
                  [] c = "url" -> article_url
                  [] c = "author" -> author.value
                  [] c = "date_published" -> date.value
                  [] c = "source" -> Str("techcrunch")])

----------------------------------------------------------------------------
(* Scraper: get_page and scrape *)

\* The retry loop, had it made one attempt too few.
retry_count_OneLess == 3 - 1

\* The retry loop, had it made one attempt too many.
retry_count_OneMore == 3 + 1

\* Scraper.__init__: self.retry_count
retry_count == 3

\* scrape, had it taken every source for TechCrunch.
source_matches_Any(src) == TRUE

\* scrape: source == ArticleSource.TECH_CRUNCH
source_matches(src) == src = "TECH_CRUNCH"

Sources == {"TECH_CRUNCH", "OTHER"}

\* The value of an anchor's data-mrf-link attribute: None without one.
AnchorValues == {None} \cup {Str(Join(parts, "/")) : parts \in UrlParts}

Listings == UNION {[1..n -> AnchorValues] : n \in 0..MaxAnchors}

Docs == [title : {Absent, Element(<<" ", "T", " ">>)},
         content : {Absent, Element(<<>>), Element(<<(<<"p">>), (<<"q">>)>>)},
         author : {Absent, Element(<<"W">>)},
         date : {Absent, Element(<<"D">>)}]

NoCall == [attempts |-> 0, warnings |-> 0, outcome |-> "pending"]

ScraperInit ==
    /\ pc = "idle"
    /\ source = "TECH_CRUNCH"
    /\ attempts = 0
    /\ warnings = 0
    /\ sessions = 0
    /\ listing = "pending"
    /\ anchors = <<>>
    /\ article_urls = <<>>
    /\ idx = 0
    /\ articles_data = <<>>
    /\ result = <<>>
    /\ exc = "none"
    /\ skipped = 0
    /\ fetched = 0
    /\ last_call = NoCall
    /\ doc = <<>>

\* scrape(url, source) is called and enters get_page for the listing, which
\* creates a browser session.
Scrape(src) ==
    /\ pc = "idle"
    /\ pc' = "listing"
    /\ source' = src
    /\ attempts' = 0
    /\ warnings' = 0
    /\ sessions' = sessions + 1
    /\ listing' = "pending"
    /\ anchors' = <<>>
    /\ article_urls' = <<>>
    /\ idx' = 0
    /\ articles_data' = <<>>
    /\ result' = <<>>
    /\ exc' = "none"
    /\ skipped' = 0
    /\ fetched' = 0
    /\ last_call' = NoCall
    /\ doc' = <<>>
    /\ UNCHANGED <<storeVars, summVars, extracted>>

\* The running get_page call ends after one more driver.get, having quit
\* its session or not, and scrape goes on to next_pc: "article" (get_page is
\* called for URL next_idx, with a session of its own), "returned" (with
\* res) or "raised" (with e).
EndCall(outcome, failed, quit, next_pc, next_idx, res, e) ==
    /\ last_call' = [attempts |-> attempts + 1,
                     warnings |-> warnings + failed,
                     outcome |-> outcome]
    /\ pc' = next_pc
    /\ idx' = next_idx
    /\ result' = res
    /\ exc' = e
    /\ attempts' = IF next_pc = "article" THEN 0 ELSE attempts + 1
    /\ warnings' = IF next_pc = "article" THEN 0 ELSE warnings + failed
    /\ sessions' = sessions - quit + (IF next_pc = "article" THEN 1 ELSE 0)
    /\ fetched' = fetched + (IF next_pc = "article" THEN 1 ELSE 0)

\* driver.get loads the listing page: get_page returns its markup, and
\* scrape goes on: fetch_articles for TECH_CRUNCH, NoArticleSourceMatched
\* for any other source.
ListingLoaded(as) ==
    /\ pc = "listing"
    /\ listing' = "content"
    /\ anchors' = as
    /\ IF source_matches(source)
       THEN /\ article_urls' = extract_article_urls(as)
            /\ skipped' = Len(as) - Len(extract_article_urls(as))
            /\ IF extract_article_urls(as) = <<>>
               THEN EndCall("content", 0, 0, "returned", 0, <<>>, "none")
               ELSE EndCall("content", 0, 0, "article", 1, <<>>, "none")
       ELSE /\ EndCall("content", 0, 0, "raised", 0, <<>>,
                       "NoArticleSourceMatched")
            /\ UNCHANGED <<article_urls, skipped>>
    /\ UNCHANGED <<source, articles_data, doc>>
    /\ UNCHANGED <<storeVars, summVars, extracted>>

\* driver.get loads an article page: get_page returns its markup, and
\* fetch_articles extracts the record, then goes on to the next URL or
\* returns the records.
ArticleLoaded(d) ==
    /\ pc = "article"
    /\ doc' = <<d>>
    /\ LET r == fetch_article(d, article_urls[idx])
       IN  IF r.exc # "none"
           THEN /\ EndCall("content", 0, 0, "raised", idx, <<>>, r.exc)
                /\ UNCHANGED articles_data
           ELSE /\ articles_data' = Append(articles_data, r.value)
                /\ IF idx < Len(article_urls)
                   THEN EndCall("content", 0, 0, "article", idx + 1, <<>>,
                                "none")
                   ELSE EndCall("content", 0, 0, "returned", idx,
                                Append(articles_data, r.value), "none")
    /\ UNCHANGED <<source, listing, anchors, article_urls, skipped>>
    /\ UNCHANGED <<storeVars, summVars, extracted>>

\* driver.get raises ConnectionError or ProtocolError: a warning, and the
\* next attempt; after retry_count attempts get_page logs an error, quits
\* the session and returns None.  scrape returns [] for a listing that is
\* None; fetch_articles hands None to BeautifulSoup, which raises TypeError.
LoadFailsTransient ==
    /\ pc \in {"listing", "article"}
    /\ IF attempts + 1 < retry_count
       THEN /\ attempts' = attempts + 1
            /\ warnings' = warnings + 1
            /\ UNCHANGED <<pc, idx, result, exc, sessions, fetched,
                           last_call, listing>>
       ELSE IF pc = "listing"
       THEN /\ listing' = "none"
            /\ EndCall("none", 1, 1, "returned", 0, <<>>, "none")
       ELSE /\ EndCall("none", 1, 1, "raised", idx, <<>>, "TypeError")
            /\ UNCHANGED listing
    /\ UNCHANGED <<source, anchors, article_urls, articles_data, skipped,
                   doc>>
    /\ UNCHANGED <<storeVars, summVars, extracted>>

\* driver.get raises anything else (selenium's WebDriverException): nothing
\* catches it, so it leaves get_page, fetch_articles and scrape.
LoadFailsOther ==
    /\ pc \in {"listing", "article"}
    /\ listing' = IF pc = "listing" THEN "error" ELSE listing
    /\ EndCall("error", 0, 0, "raised", idx, <<>>, "WebDriverException")
    /\ UNCHANGED <<source, anchors, article_urls, articles_data, skipped,
                   doc>>
    /\ UNCHANGED <<storeVars, summVars, extracted>>

ScraperNext ==
    \/ \E src \in Sources : Scrape(src)
    \/ \E as \in Listings : ListingLoaded(as)
    \/ \E d \in Docs : ArticleLoaded(d)
    \/ LoadFailsTransient
    \/ LoadFailsOther

----------------------------------------------------------------------------
(* site_summarizer: summarize_article and main *)

\* sumy's to_unicode, which PlaintextParser applies to its text: a str as it
\* is, any other object by its str(); str(float("nan")) is "nan".
to_unicode(x) ==
    CASE x.t = "nan" -> "nan"
      [] x.t = "None" -> "None"
      [] OTHER -> x.v

\* The sentences the tokenizer finds in a text: every text of the model
\* that is not empty is one sentence.
Sentences(text) == IF text = "" THEN <<>> ELSE <<text>>

\* summarizer(document, num_sentences): at most num_sentences sentences of
\* the document, in document order; all of them when it has no more.
LexRank(sentences, num_sentences) ==
    SubSeq(sentences, 1,
           IF Len(sentences) < num_sentences THEN Len(sentences)
           ELSE num_sentences)

\* summarize_article, had it required article_text to be a str.
summarize_article_StrOnly(article_text) ==
    IF article_text.t # "str" THEN Raise("AttributeError")
    ELSE Return(Str(Join(LexRank(Sentences(to_unicode(article_text)), 3), " ")))

\* summarize_article(article_text, tokenizer, summarizer, num_sentences=3)
summarize_article(article_text) ==
    Return(Str(Join(LexRank(Sentences(to_unicode(article_text)), 3), " ")))

Paths == {"store", "other"}

FileAt(path) == IF path = "store" THEN file ELSE other

\* main(input_csv_file, output_csv_file): the file it writes (the output
\* file as it was when it raises) and what it raises.
main(input, output) ==
    LET df == read_csv(input)
        summaries == [i \in DOMAIN df.rows |->
                         summarize_article(df.rows[i]["content"])]
        failed == {i \in DOMAIN summaries : summaries[i].exc # "none"}
        df_copy == [cols |-> df.cols \cup {"summary"},
                    rows |-> [i \in DOMAIN df.rows |->
                        [c \in df.cols \cup {"summary"} |->
                            IF c = "summary" THEN summaries[i].value
                            ELSE df.rows[i][c]]]]
    IN  IF ~input.exists THEN [file |-> output, raised |-> "NoCSVFound"]
        ELSE IF "content" \notin df.cols
             THEN [file |-> output, raised |-> "KeyError"]
        ELSE IF failed # {}
             THEN [file |-> output,
                   raised |-> summaries[CHOOSE i \in failed :
                                           \A j \in failed : i <= j].exc]
        ELSE [file |-> to_csv(df_copy), raised |-> "none"]

Main(input_csv_file, output_csv_file) ==
    /\ LET r == main(FileAt(input_csv_file), FileAt(output_csv_file))
       IN  /\ main_exc' = r.raised
           /\ IF output_csv_file = "store"
              THEN file' = r.file /\ UNCHANGED other
              ELSE other' = r.file /\ UNCHANGED file
    /\ in_before' = FileAt(input_csv_file)
    /\ main_in' = input_csv_file
    /\ main_out' = output_csv_file
    /\ last_op' = "main"
    /\ UNCHANGED <<before, batch, raised, phase, batchA, invocations>>
    /\ UNCHANGED <<scraperVars, extracted>>

----------------------------------------------------------------------------
(* Inputs of update_csv_file *)

ArticleIds == {Str("a"), Str("7"), None}
Titles == {Str("t1"), Str("t2")}

Article(id, title, content) ==
    [c \in Columns |->
        CASE c = "title" -> title
          [] c = "article_id" -> id
          [] c = "content" -> content
          [] c = "url" -> Str("u")
          [] c = "author" -> Str("w")
          [] c = "date_published" -> Str("d")
          [] c = "source" -> Str("techcrunch")]

Articles == {Article(id, title, Str("c")) : id \in ArticleIds, title \in Titles}

Batches == UNION {[1..n -> Articles] : n \in 0..MaxBatch}

\* The records given to the store that the summarizer reads: the content of
\* an article without a paragraph is "".
Contents == {Str(""), Str("c"), Str("7")}

SummArticles == {Article(id, Str("t1"), content) :
                    id \in {Str("a"), Str("b")}, content \in Contents}

\* One scrape result at a time: the empty list or one record.
SummBatches == {<<>>} \cup {<<r>> : r \in SummArticles}

----------------------------------------------------------------------------
(* DataStorage: any sequence of update_csv_file calls *)

\* Neither of the two update_csv_file calls has begun.
NoInvocations ==
    [pc |-> <<"idle", "idle">>,
     existing_data |-> <<[cols |-> {}, rows |-> <<>>],
                         [cols |-> {}, rows |-> <<>>]>>,
     article_data |-> <<(<<>>), (<<>>)>>,
     overlapped |-> FALSE]

StoreInit ==
    /\ file = NoFile
    /\ before = NoFile
    /\ batch = <<>>
    /\ raised = "none"
    /\ phase = 0
    /\ batchA = <<>>
    /\ invocations = NoInvocations

SummInit ==
    /\ other = NoFile
    /\ last_op = "none"
    /\ main_in = "store"
    /\ main_out = "other"
    /\ in_before = NoFile
    /\ main_exc = "none"

\* No extractor has been called on its own.
NoExtraction == [fn |-> "none", arg |-> <<>>, out |-> <<>>]

ExtractInit == extracted = NoExtraction

Init == StoreInit /\ ScraperInit /\ SummInit /\ ExtractInit

Spec == Init /\ [][ScraperNext]_vars

UpdateCsvFile(article_data) ==
    /\ Len(file.rows) + Len(article_data) <= MaxRows
    /\ LET r == update_csv_file(file, article_data)
       IN  /\ file' = r.file
           /\ raised' = r.raised
    /\ before' = file
    /\ batch' = article_data
    /\ phase' = 1
    /\ UNCHANGED <<batchA, invocations>>
    /\ last_op' = "update"
    /\ UNCHANGED <<scraperVars, other, main_in, main_out, in_before, main_exc,
                   extracted>>

StoreNext == \E article_data \in Batches : UpdateCsvFile(article_data)

SpecStore == Init /\ [][StoreNext]_vars

----------------------------------------------------------------------------
(* The summarizer run on the files that update_csv_file writes *)

SummNext ==
    \/ \E article_data \in SummBatches : UpdateCsvFile(article_data)
    \/ \E input \in Paths, output \in Paths : Main(input, output)

SpecSumm == Init /\ [][SummNext]_vars

----------------------------------------------------------------------------
(* DataStorage: update_csv_file(A) followed by update_csv_file(B), from no *)
(* file                                                                    *)

UpdateA(article_data) ==
    /\ phase = 0
    /\ LET r == update_csv_file(file, article_data)
       IN  /\ file' = r.file
           /\ raised' = r.raised
    /\ before' = file
    /\ batch' = article_data
    /\ batchA' = article_data
    /\ phase' = 1
    /\ UNCHANGED invocations
    /\ last_op' = "update"
    /\ UNCHANGED <<scraperVars, other, main_in, main_out, in_before, main_exc,
                   extracted>>

UpdateB(article_data) ==
    /\ phase = 1
    /\ LET r == update_csv_file(file, article_data)
       IN  /\ file' = r.file
           /\ raised' = r.raised
    /\ before' = file
    /\ batch' = article_data
    /\ phase' = 2
    /\ UNCHANGED <<batchA, invocations>>
    /\ last_op' = "update"
    /\ UNCHANGED <<scraperVars, other, main_in, main_out, in_before, main_exc,
                   extracted>>

PairNext ==
    \/ \E article_data \in Batches : UpdateA(article_data)
    \/ \E article_data \in Batches : UpdateB(article_data)

SpecPair == Init /\ [][PairNext]_vars

----------------------------------------------------------------------------
(* The extractors extract_article_date and extract_article_id, each called *)
(* on its own with any article page and any URL                            *)

\* The texts of a date element: at most MaxTokens tokens, each a space, the
\* bullet or the word "D".
DateTexts == UNION {[1..n -> {" ", "D", Bullet}] : n \in 0..MaxTokens}

\* Article pages with every element but, for some, the date element.
DateDocs ==
    {[title |-> Element(<<"T">>), content |-> Element(<<>>),
      author |-> Element(<<"W">>), date |-> e] :
        e \in {Absent} \cup {Element(ts) : ts \in DateTexts}}

\* The URL strings given to extract_article_id.
IdUrls == {Str(Join(parts, "/")) : parts \in UrlParts \cup ShortUrlParts}

ExtractDate(d) ==
    /\ extracted' = [fn |-> "extract_article_date", arg |-> d,
                     out |-> extract_article_date(d)]
    /\ UNCHANGED <<storeVars, scraperVars, summVars>>

ExtractId(article_url) ==
    /\ extracted' = [fn |-> "extract_article_id", arg |-> article_url,
                     out |-> extract_article_id(article_url)]
    /\ UNCHANGED <<storeVars, scraperVars, summVars>>

ExtractNext ==
    \/ \E d \in DateDocs : ExtractDate(d)
    \/ \E article_url \in IdUrls : ExtractId(article_url)

SpecExtract == Init /\ [][ExtractNext]_vars

----------------------------------------------------------------------------
(* DataStorage: two update_csv_file calls on one file, from no file, each  *)
(* in a process of its own; a call reads the file in one step              *)
(* (load_existing_data) and writes it in a later one (save_to_csv)         *)

\* The article_data of a call: one record.
RaceBatches == {<<r>> : r \in Articles}

\* Call i begins: existing_data = self.load_existing_data().  The two calls
\* overlap when the other has loaded and not yet saved.
Load(i, article_data) ==
    /\ invocations.pc[i] = "idle"
    /\ invocations' =
          [invocations EXCEPT
              !.pc[i] = "loaded",
              !.existing_data[i] = load_existing_data(file),
              !.article_data[i] = article_data,
              !.overlapped = @ \/ invocations.pc[3 - i] = "loaded"]
    /\ UNCHANGED <<file, before, batch, raised, phase, batchA>>
    /\ UNCHANGED <<scraperVars, summVars, extracted>>

\* Call i goes on from its existing_data: the filter, the concatenation and
\* save_to_csv, which writes the whole file.
Save(i) ==
    /\ invocations.pc[i] = "loaded"
    /\ LET r == filter_and_save(file, invocations.existing_data[i],
                                invocations.article_data[i])
       IN  /\ file' = r.file
           /\ raised' = r.raised
    /\ before' = file
    /\ batch' = invocations.article_data[i]
    /\ phase' = phase + 1
    /\ invocations' = [invocations EXCEPT !.pc[i] = "saved"]
    /\ last_op' = "update"
    /\ UNCHANGED batchA
    /\ UNCHANGED <<scraperVars, other, main_in, main_out, in_before, main_exc,
                   extracted>>

RaceNext ==
    \/ \E i \in 1..2 : \E article_data \in RaceBatches : Load(i, article_data)
    \/ \E i \in 1..2 : Save(i)

SpecRace == Init /\ [][RaceNext]_vars

----------------------------------------------------------------------------
(* The entry point of news_scraper.py: scrape, then update_csv_file with   *)
(* the list scrape returned                                                *)

\* __main__, had it gone on to update_csv_file after scrape raised.
reaches_update_Always(p) == p \in {"returned", "raised"}

\* __main__: the line that calls update_csv_file is reached when scrape has
\* returned; an exception scrape raises is not caught and ends the process.
reaches_update(p) == p = "returned"

\* The CSV file the earlier runs left: none, or a file of one record.
PriorStores ==
    {NoFile,
     save_to_csv(DataFrame(<<Article(Str("a"), Str("t1"), Str("c"))>>))}

RunInit ==
    /\ file \in PriorStores
    /\ before = file
    /\ batch = <<>>
    /\ raised = "none"
    /\ phase = 0
    /\ batchA = <<>>
    /\ invocations = NoInvocations
    /\ ScraperInit
    /\ SummInit
    /\ ExtractInit

\* data_storage.update_csv_file(techcrunch_articles_data), after which the
\* process exits.
Persist ==
    /\ reaches_update(pc)
    /\ LET r == update_csv_file(file, result)
       IN  /\ file' = r.file
           /\ raised' = r.raised
    /\ before' = file
    /\ batch' = result
    /\ phase' = phase + 1
    /\ pc' = "exited"
    /\ last_op' = "update"
    /\ UNCHANGED <<batchA, invocations, source, attempts, warnings,
                   sessions, listing, anchors, article_urls, idx,
                   articles_data, result, exc, skipped, fetched, last_call,
                   doc>>
    /\ UNCHANGED <<other, main_in, main_out, in_before, main_exc, extracted>>

\* The listing pages of a run: anchors without the attribute, with a URL
\* that has no "/", and with the URL of the article the file may hold.
RunListings ==
    {as \in Listings :
        \A i \in DOMAIN as :
            as[i] \in {None, Str("x"), Str("https://tc.com/a/")}}

RunNext ==
    \/ \E src \in Sources : Scrape(src)
    \/ \E as \in RunListings : ListingLoaded(as)
    \/ \E d \in Docs : ArticleLoaded(d)
    \/ LoadFailsTransient
    \/ LoadFailsOther
    \/ Persist

SpecRun == RunInit /\ [][RunNext]_vars

----------------------------------------------------------------------------
(* Claims about Scraper *)

NamedConditions == {"NoArticleTitleFound", "NoArticleContentFound",
                    "NoArticleAuthorFound", "NoArticleDateFound"}

\* C3: when all 3 loads of the listing page fail with a connection error,
\* get_page returns None without raising, and scrape returns the empty list
\* without raising and without a get_page call for an article page.
C3_ListingExhaustedGivesEmpty ==
    listing = "none" =>
        /\ last_call = [attempts |-> 3, warnings |-> 3, outcome |-> "none"]
        /\ pc = "returned"
        /\ result = <<>>
        /\ exc = "none"
        /\ fetched = 0

\* C3 witness: scrape has returned after the listing's get_page gave None.
C3_Witness == listing = "none" /\ pc = "returned" /\ attempts = 3

\* C4: every get_page call that has ended has released its browser session:
\* the only session open is that of the get_page call that is running, if
\* one is.
C4_SessionsReleased ==
    sessions = (IF pc \in {"listing", "article"} THEN 1 ELSE 0)

\* C5 as claimed: a scrape call with a source that matches no extractor
\* ends by raising NoArticleSourceMatched, whatever the listing fetch gave
\* (content or, after 3 failed attempts, no content).
C5_Original ==
    (source = "OTHER" /\ pc \in {"returned", "raised"}
        /\ listing \in {"content", "none"})
        => (pc = "raised" /\ exc = "NoArticleSourceMatched")

\* C5: a scrape call with a source that matches no extractor raises
\* NoArticleSourceMatched once the listing fetch has given content, without
\* a get_page call for an article page; when the listing fetch gives no
\* content it returns the empty list and raises nothing.
C5_UnmatchedSource ==
    source = "OTHER" =>
        /\ listing = "content" =>
              (pc = "raised" /\ exc = "NoArticleSourceMatched"
                 /\ fetched = 0 /\ article_urls = <<>>)
        /\ listing = "none" =>
              (pc = "returned" /\ result = <<>> /\ exc = "none")

\* C5 witness: the listing was loaded for an unmatched source, and scrape
\* raised.
C5_Witness ==
    /\ source = "OTHER"
    /\ listing = "content"
    /\ anchors # <<>>
    /\ pc = "raised"

\* The conditions of the containers an article page lacks.
MissingConditions(d) ==
    {e \in NamedConditions :
        \/ e = "NoArticleTitleFound" /\ ~d.title.present
        \/ e = "NoArticleContentFound" /\ ~d.content.present
        \/ e = "NoArticleAuthorFound" /\ ~d.author.present
        \/ e = "NoArticleDateFound" /\ ~d.date.present}

\* C6: when the page loaded for the k-th URL lacks a container, scrape
\* raises the condition of a container it lacks, no record is made for that
\* URL, no URL after k is fetched, and no list is returned.
C6_StructuralFailureAborts ==
    (doc # <<>> /\ MissingConditions(doc[1]) # {}) =>
        /\ pc = "raised"
        /\ exc \in MissingConditions(doc[1])
        /\ Len(articles_data) = idx - 1
        /\ fetched = idx
        /\ result = <<>>

\* C6 witness: the second of three URLs failed after the first gave a
\* record.
C6_Witness ==
    /\ pc = "raised"
    /\ exc \in NamedConditions
    /\ idx = 2
    /\ Len(article_urls) = 3
    /\ Len(articles_data) = 1

\* C7 as claimed: one record per anchor that carries the data-mrf-link
\* attribute.
C7_Original ==
    (pc = "returned" /\ listing = "content") =>
        Len(result) = Len(SelectSeq(anchors, LAMBDA a : a # None))

\* C7: when the listing is loaded and every article page is loaded and
\* extracted, scrape returns one record per anchor whose data-mrf-link is a
\* non-empty string, in listing order, each with the anchor's URL, the source
\* "techcrunch" and a title, author and content that are not None; the other
\* anchors are skipped with a warning each.
C7_OneRecordPerUrl ==
    (pc = "returned" /\ listing = "content") =>
        LET urls == SelectSeq(anchors, Truthy)
        IN  /\ exc = "none"
            /\ Len(result) = Len(urls)
            /\ \A i \in DOMAIN result :
                  /\ result[i]["url"] = urls[i]
                  /\ result[i]["source"] = Str("techcrunch")
                  /\ result[i]["title"].t = "str"
                  /\ result[i]["author"].t = "str"
                  /\ result[i]["content"].t = "str"
            /\ skipped = Len(anchors) - Len(urls)

\* C7 witness: a listing of two URLs around an anchor without the
\* attribute gave two records and one warning.
C7_Witness ==
    /\ pc = "returned"
    /\ Len(anchors) = 3
    /\ anchors[2] = None
    /\ Len(result) = 2
    /\ skipped = 1

\* C7 witness of the empty case: a listing without a URL gave the empty
\* list.
C7_WitnessEmpty ==
    pc = "returned" /\ listing = "content" /\ anchors # <<>> /\ result = <<>>

\* C8: when the get_page call for an article page gives None, what scrape
\* raises, if anything, is one of the named extraction conditions.
C8_NoContentIsRegular ==
    (pc = "raised" /\ last_call.outcome = "none") => exc \in NamedConditions

----------------------------------------------------------------------------
(* Claims about DataStorage *)

\* The row to_csv writes for a record.
RowOf(r) == [c \in Columns |-> FormatCell(r[c])]

\* The non-null article_id values of a batch, as the texts the file holds.
IdsOf(article_data) ==
    {article_data[i]["article_id"].v :
        i \in {j \in DOMAIN article_data : article_data[j]["article_id"] # None}}

\* The article_id cells of the file that hold an id.
StoredIds == {file.rows[i]["article_id"] : i \in DOMAIN file.rows} \ {""}

\* No two records of the batch share an id: the batch is a record set.
IsRecordSet(article_data) ==
    \A i, j \in DOMAIN article_data :
        (i # j /\ article_data[i]["article_id"] # None)
            => article_data[i]["article_id"] # article_data[j]["article_id"]

\* C1: after update_csv_file(A); update_csv_file(B) from an empty store, for
\* record sets A and B, the stored ids are exactly the ids of A and of B,
\* each id is stored once, and an id of both A and B is stored with A's
\* record.
C1_UnionFirstSeenWins ==
    (phase = 2 /\ IsRecordSet(batchA) /\ IsRecordSet(batch)) =>
        /\ StoredIds = IdsOf(batchA) \cup IdsOf(batch)
        /\ \A id \in StoredIds :
              Cardinality({i \in DOMAIN file.rows :
                              file.rows[i]["article_id"] = id}) = 1
        /\ \A i \in DOMAIN batchA :
              (batchA[i]["article_id"] # None
                  /\ batchA[i]["article_id"].v \in IdsOf(batch))
              => \E k \in DOMAIN file.rows : file.rows[k] = RowOf(batchA[i])

NullIdRecords(article_data) ==
    SelectSeq(article_data, LAMBDA r : r["article_id"] = None)

\* C2: update_csv_file is idempotent: once a call with a batch has ended, a
\* second call with the same batch leaves the file as it is (stated for the
\* batches whose records all have an id).
C2_Idempotent ==
    (phase >= 1 /\ NullIdRecords(batch) = <<>>)
        => update_csv_file(file, batch).file = file

\* The rows the last call added after the rows the file held before.
Appended == SubSeq(file.rows, Len(before.rows) + 1, Len(file.rows))

\* C9: a call whose batch holds records with a null article_id returns
\* without raising, and every null-id record of the batch is appended, in
\* batch order, whatever null-id rows the file already held.
C9_NullIdsTolerated ==
    (phase >= 1 /\ NullIdRecords(batch) # <<>>) =>
        /\ raised = "none"
        /\ Len(file.rows) >= Len(before.rows)
        /\ SelectSeq(Appended, LAMBDA row : row["article_id"] = "")
             = [i \in DOMAIN NullIdRecords(batch) |->
                    RowOf(NullIdRecords(batch)[i])]

\* C9 witness: a batch with two null-id records was added to a file that
\* already held a null-id row.
C9_Witness ==
    /\ phase >= 1
    /\ Len(NullIdRecords(batch)) = 2
    /\ \E i \in DOMAIN before.rows : before.rows[i]["article_id"] = ""
    /\ Len(file.rows) = Len(before.rows) + 2

----------------------------------------------------------------------------
(* Claims about the summarizer *)

\* C10: a main call on an input file that exists returns without raising,
\* whatever the content of its records (an empty content field included),
\* and writes an output file with a row per input row, each with a summary
\* field.
C10_SummarizerCompletes ==
    (last_op = "main" /\ in_before.exists) =>
        /\ main_exc = "none"
        /\ FileAt(main_out).exists
        /\ "summary" \in FileAt(main_out).cols
        /\ Len(FileAt(main_out).rows) = Len(in_before.rows)
        /\ \A i \in DOMAIN FileAt(main_out).rows :
              "summary" \in DOMAIN FileAt(main_out).rows[i]

\* C10 witness: main has summarized a file with a record of empty content
\* and a record of content "c", whose summary is "c".
C10_Witness ==
    /\ last_op = "main"
    /\ main_exc = "none"
    /\ \E i \in DOMAIN in_before.rows : in_before.rows[i]["content"] = ""
    /\ \E i \in DOMAIN FileAt(main_out).rows :
          /\ FileAt(main_out).rows[i]["content"] = "c"
          /\ FileAt(main_out).rows[i]["summary"] = "c"

\* C11: after a main call that returned, with an input path and an output
\* path that differ, the input file is as it was before the call, and the
\* output file holds a row per input row, in the same order, with every
\* field of the input row unchanged and a summary field.
C11_InputKeptOutputExtends ==
    (last_op = "main" /\ in_before.exists /\ main_exc = "none"
        /\ main_in # main_out) =>
        /\ FileAt(main_in) = in_before
        /\ FileAt(main_out).cols = in_before.cols \cup {"summary"}
        /\ Len(FileAt(main_out).rows) = Len(in_before.rows)
        /\ \A i \in DOMAIN in_before.rows : \A c \in in_before.cols :
              FileAt(main_out).rows[i][c] = in_before.rows[i][c]

----------------------------------------------------------------------------
(* Claims about get_page *)

\* C12 as claimed: a get_page call that has ended made at most 3 attempts
\* and logged one warning per failed attempt: every attempt failed but the
\* last of a call that returned markup.
C12_Original ==
    last_call.outcome # "pending" =>
        /\ last_call.attempts \in 1..3
        /\ last_call.warnings =
              last_call.attempts
                 - (IF last_call.outcome = "content" THEN 1 ELSE 0)

\* C12: a get_page call makes at most 3 attempts.  While it runs, every
\* attempt made so far failed with a connection error and logged a warning.
\* It ends with the first attempt that does not fail so: with the markup
\* when that attempt succeeds, by raising, with no warning for that attempt,
\* when it fails otherwise; it returns None when all 3 attempts failed with
\* a connection error, a warning each.
C12_BoundedRetry ==
    /\ pc \in {"listing", "article"} =>
          (attempts \in 0..2 /\ warnings = attempts)
    /\ last_call.outcome \in {"content", "error"} =>
          /\ last_call.attempts \in 1..3
          /\ last_call.warnings = last_call.attempts - 1
    /\ last_call.outcome = "none" =>
          (last_call.attempts = 3 /\ last_call.warnings = 3)

\* C12 witness: a get_page call returned the markup of its third attempt
\* after two warnings.
C12_Witness ==
    last_call = [attempts |-> 3, warnings |-> 2, outcome |-> "content"]

----------------------------------------------------------------------------
(* More claims about DataStorage *)

\* s is t without some of its elements, the others in the order of t.
RECURSIVE IsSubsequence(_, _)
IsSubsequence(s, t) ==
    IF s = <<>> THEN TRUE
    ELSE IF t = <<>> THEN FALSE
    ELSE IF Head(s) = Head(t) THEN IsSubsequence(Tail(s), Tail(t))
    ELSE IsSubsequence(s, Tail(t))

\* C13: after an update_csv_file call that returned, the rows the file held
\* before the call are the first rows of the file, unchanged and in the
\* same order, and the rows after them are rows of batch records, in batch
\* order.
C13_AppendOnly ==
    (phase >= 1 /\ raised = "none") =>
        /\ Len(file.rows) >= Len(before.rows)
        /\ SubSeq(file.rows, 1, Len(before.rows)) = before.rows
        /\ IsSubsequence(Appended, [i \in DOMAIN batch |-> RowOf(batch[i])])

\* C14: whatever update_csv_file calls were made from no file, no two rows
\* of the file hold the same article_id, unless it is the empty field of a
\* null id.
C14_IdsUnique ==
    \A i, j \in DOMAIN file.rows :
        (i # j /\ file.rows[i]["article_id"] # "")
            => file.rows[i]["article_id"] # file.rows[j]["article_id"]

----------------------------------------------------------------------------
(* Claims about the entry point *)

\* C15: when scrape has returned the empty list, the update_csv_file call
\* that follows returns without raising and leaves the file as it was.
C15_EmptyResultStored ==
    (pc = "exited" /\ batch = <<>>) => (raised = "none" /\ file = before)

\* C19: in a run, update_csv_file is called at most once, and only after
\* scrape has returned; until then, and for good when scrape has raised, the
\* file is as it was before the run.
C19_StoreWrittenAfterReturn ==
    /\ phase <= 1
    /\ phase = 1 => (pc = "exited" /\ exc = "none")
    /\ pc # "exited" => (phase = 0 /\ file = before)
    /\ pc = "exited" => batch = result

\* C19 witness: scrape raised for the second URL after it had made a record
\* for the first, and the file of an earlier run is as it was.
C19_Witness ==
    /\ pc = "raised"
    /\ exc \in NamedConditions
    /\ Len(articles_data) = 1
    /\ file.exists
    /\ file = before

\* C19 witness of the normal run: scrape returned two records, and the one
\* whose id the file did not hold was added to it.
C19_WitnessStored ==
    /\ pc = "exited"
    /\ Len(result) = 2
    /\ raised = "none"
    /\ Len(file.rows) = Len(before.rows) + 1
    /\ before.exists

----------------------------------------------------------------------------
(* Claims about overlapping update_csv_file calls *)

\* Both calls have saved.
BothSaved == invocations.pc = <<"saved", "saved">>

\* An id of a record that one of the two calls was given is not in the file.
LostUpdate ==
    \E i \in 1..2 : IdsOf(invocations.article_data[i]) \ StoredIds # {}

\* An id that both calls were given is in two rows of the file.
SharedIdTwice ==
    \E id \in IdsOf(invocations.article_data[1])
                \cap IdsOf(invocations.article_data[2]) :
        Cardinality({k \in DOMAIN file.rows :
                        file.rows[k]["article_id"] = id}) >= 2

\* C16: when the two calls did not overlap (the second loaded after the
\* first had saved) and both have saved, no id given to a call is missing
\* from the file, and no id given to both is stored twice.
C16_SerializedIsSafe ==
    (BothSaved /\ ~invocations.overlapped) => (~LostUpdate /\ ~SharedIdTwice)

\* C16, the race: both calls loaded before either saved, both have saved,
\* and the record of one is not in the file.
C16_RaceLosesUpdate == BothSaved /\ invocations.overlapped /\ LostUpdate

----------------------------------------------------------------------------
(* Claims about the extractors called on their own *)

\* The date text has the bullet-delimited structure: it holds a bullet.
WellFormedDate(ts) == \E i \in DOMAIN ts : ts[i] = Bullet

\* C17: extract_article_date raises NoArticleDateFound exactly when the
\* page has no date element; for an element whose text holds no bullet it
\* returns None; for an element whose text holds one it returns the text
\* after the last bullet, stripped.
C17_DateDegradesToNone ==
    extracted.fn = "extract_article_date" =>
        LET d == extracted.arg
            r == extracted.out
        IN  /\ (r.exc = "NoArticleDateFound") <=> ~d.date.present
            /\ (d.date.present /\ ~WellFormedDate(d.date.text))
                  => r = Return(None)
            /\ (d.date.present /\ WellFormedDate(d.date.text))
                  => r = Return(Str(Concat(Strip(
                            SplitLast(d.date.text, Bullet)))))

\* The URL has a second-to-last part that is not empty: an article identity
\* can be derived from it.
HasIdentity(url_parts) ==
    Len(url_parts) >= 2 /\ url_parts[Len(url_parts) - 1] # ""

\* C18: extract_article_id returns the second-to-last "/"-separated part of
\* the URL, and None for every URL from which no identity can be derived:
\* one that has no second-to-last part, or an empty one.
C18_IdOrNone ==
    extracted.fn = "extract_article_id" =>
        LET url_parts == SplitSlash(extracted.arg.v)
        IN  extracted.out =
                (IF HasIdentity(url_parts)
                 THEN Str(url_parts[Len(url_parts) - 1])
                 ELSE None)

====
